---- MODULE Spec2Model ----
(***************************************************************************)
(* The API Gateway -> Lambda -> DynamoDB request handler of                *)
(* lambda/apigw-handler/index.py: handler() and put_item_with_retry().     *)
(*                                                                         *)
(* Invocations run concurrently (the stack reserves 100 concurrent         *)
(* executions) and share only the DynamoDB table.  An action is a stretch  *)
(* of one invocation's code with at most one put_item call in it: the      *)
(* handler from its entry to the call of put_item_with_retry, then one     *)
(* turn of the retry loop at a time, the last turn together with the rest  *)
(* of the handler.  The steps between two put_item calls touch nothing     *)
(* another invocation reads, so this loses no interleaving.                *)
(*                                                                         *)
(* Events are those of the REST proxy integration of the stack             *)
(* (LambdaRestApi): "body" is always there, null or a text, and            *)
(* requestContext is a dict.  uuid.uuid4() returns a new value at every    *)
(* call.  Times are in milliseconds (the code's seconds * 1000).           *)
(***************************************************************************)
EXTENDS Integers, Sequences, FiniteSets, TLC

(* ------------------------------ bounds -------------------------------- *)
\* number of concurrent handler invocations
NumInv == 2
\* total number of faults (failing store answers, stopped invocations) in one run
MaxFaults == 3
\* largest max_retries argument tried when put_item_with_retry is called directly
MaxRetriesArg == 4

(* ------------------------- program constants -------------------------- *)
\* def put_item_with_retry(table, item, request_id, max_retries=3)
DefaultMaxRetries == 3
\* wait_time = (2 ** attempt) * 0.1   (0.1 s)
BackoffBaseMs == 100

Invs == 1 .. NumInv

(* --------------------------- JSON and str() --------------------------- *)
\* Python values produced by json.loads for the scalars a body may hold.
JNum(n)  == [t |-> "num",  n |-> n, s |-> ""]
JStr(s)  == [t |-> "str",  n |-> 0, s |-> s]
JBool(b) == [t |-> "bool", n |-> IF b THEN 1 ELSE 0, s |-> ""]
JNull    == [t |-> "null", n |-> 0, s |-> ""]

Digit(d) ==
  CASE d = 0 -> "0" [] d = 1 -> "1" [] d = 2 -> "2" [] d = 3 -> "3" [] d = 4 -> "4"
    [] d = 5 -> "5" [] d = 6 -> "6" [] d = 7 -> "7" [] d = 8 -> "8" [] d = 9 -> "9"

RECURSIVE NatToStr(_)
NatToStr(n) == IF n < 10 THEN Digit(n) ELSE NatToStr(n \div 10) \o Digit(n % 10)

\* the mutant of PyStr: the value's JSON text instead of str(value)
PyStrAsJson(v) ==
  CASE v.t = "num"  -> IF v.n < 0 THEN "-" \o NatToStr(0 - v.n) ELSE NatToStr(v.n)
    [] v.t = "str"  -> "\"" \o v.s \o "\""
    [] v.t = "bool" -> IF v.n = 1 THEN "true" ELSE "false"
    [] v.t = "null" -> "null"

\* str(value)
PyStr(v) ==
  CASE v.t = "num"  -> IF v.n < 0 THEN "-" \o NatToStr(0 - v.n) ELSE NatToStr(v.n)
    [] v.t = "str"  -> v.s
    [] v.t = "bool" -> IF v.n = 1 THEN "True" ELSE "False"
    [] v.t = "null" -> "None"

(* ------------------------------ requests ------------------------------ *)
\* event["body"] as the REST proxy integration delivers it: null, or a text.
\* A text is kept as what json.loads makes of it.
BodyNull      == [k |-> "null"]
BodyEmpty     == [k |-> "text", doc |-> [form |-> "empty"]]
BodyMalformed == [k |-> "text", doc |-> [form |-> "malformed"]]
BodyScalar(v) == [k |-> "text", doc |-> [form |-> "scalar", val |-> v]]
BodyObject(o) == [k |-> "text", doc |-> [form |-> "object", obj |-> o]]

MovieA    == [id |-> JStr("7"), year |-> JNum(2012), title |-> JStr("Up")]
MovieB    == [id |-> JNum(7), year |-> JStr("1999"), title |-> JNull,
              rating |-> JBool(TRUE)]
NoId      == [year |-> JNum(2012), title |-> JStr("Up")]
NoYear    == [id |-> JStr("7"), title |-> JStr("Up")]
NoTitle   == [id |-> JStr("7"), year |-> JNum(2012)]

ValidObjects   == {MovieA, MovieB}
LackingObjects == {NoId, NoYear, NoTitle}

Bodies ==
  {BodyNull, BodyEmpty, BodyMalformed, BodyScalar(JNum(42))}
    \cup {BodyObject(o) : o \in ValidObjects \cup LackingObjects}

\* the mutant of RequestId: the identifier kept in a module global by the first invocation
RequestIdShared(i) == "req-1"

\* context.request_id, one per invocation
RequestId(i) == "req-" \o NatToStr(i)

RequestContext ==
  [identity |-> [sourceIp |-> "203.0.113.9"], httpMethod |-> "POST", path |-> "/"]

\* os.environ.get("TABLE_NAME")
TableName == "demo_table"

(* ------------------------------- errors ------------------------------- *)
Exc(type, code, message) == [type |-> type, code |-> code, message |-> message]

\* botocore.exceptions.ClientError with e.response['Error']['Code'] = code
ClientError(code) == Exc("ClientError", code, "An error occurred (" \o code \o ")")

\* what one dynamodb_client.put_item call can answer
Ok == Exc("ok", "", "")
StoreErrors ==
  { ClientError("ProvisionedThroughputExceededException"),
    ClientError("ThrottlingException"),
    ClientError("ValidationException"),
    Exc("EndpointConnectionError", "", "Could not connect to the endpoint URL") }
StoreOutcomes == {Ok} \cup StoreErrors

\* the mutant of ThrottleCodes: the second code is forgotten
ThrottleCodesOnlyProvisioned == {"ProvisionedThroughputExceededException"}

\* error_code in ['ProvisionedThroughputExceededException', 'ThrottlingException']
ThrottleCodes == {"ProvisionedThroughputExceededException", "ThrottlingException"}

\* except ClientError as e
IsClientError(e) == e.type = "ClientError"

\* the mutant of IsThrottle: every ClientError is retried
IsThrottleAnyClientError(e) == IsClientError(e)

\* lines 29-31: a ClientError whose code is one of the two
IsThrottle(e) == IsClientError(e) /\ e.code \in ThrottleCodes

(* -------------------------------- state ------------------------------- *)
VARIABLES
  pc,           \* where each invocation is
  event,        \* the event each invocation was given
  item,         \* <<item>> handed to put_item_with_retry, <<>> before
  max_retries,  \* the max_retries argument of the running put_item_with_retry
  attempt,      \* the loop variable of put_item_with_retry
  ret,          \* what put_item_with_retry returned: "none", "True", "False"
  exc,          \* <<e>> the exception in flight or raised, <<>> when none
  response,     \* <<response>> the handler returned, <<>> when none
  log,          \* the lines each invocation gave to the logger, in order
  sleeps,       \* the time.sleep durations of each invocation, in order (ms)
  outcomes,     \* the answers of the store to each invocation's put_item calls
  generated,    \* <<u>> the uuid4 an invocation generated, <<>> when none
  store,        \* the table: the items it holds, at most one per key "id"
  faults        \* the faults so far: failing store answers, stopped invocations

vars == <<pc, event, item, max_retries, attempt, ret, exc, response, log, sleeps,
          outcomes, generated, store, faults>>

NoEvent == [body |-> BodyNull, requestContext |-> [none |-> TRUE]]

Init ==
  /\ pc = [i \in Invs |-> "idle"]
  /\ event = [i \in Invs |-> NoEvent]
  /\ item = [i \in Invs |-> <<>>]
  /\ max_retries = [i \in Invs |-> DefaultMaxRetries]
  /\ attempt = [i \in Invs |-> 0]
  /\ ret = [i \in Invs |-> "none"]
  /\ exc = [i \in Invs |-> <<>>]
  /\ response = [i \in Invs |-> <<>>]
  /\ log = [i \in Invs |-> <<>>]
  /\ sleeps = [i \in Invs |-> <<>>]
  /\ outcomes = [i \in Invs |-> <<>>]
  /\ generated = [i \in Invs |-> <<>>]
  /\ store = {}
  /\ faults = 0

(* ------------------------------ the logger ---------------------------- *)
\* logger.info / logger.warning / logger.error of json.dumps({...})
LogLine(level, fields) == [level |-> level, fields |-> fields]

(* ------------------------------ handler ------------------------------- *)
\* the mutant of Uuid4: one identifier made when the module is loaded
Uuid4AtImport(n) == "uuid-1"

\* str(uuid.uuid4()), the n-th call of the process: a value no earlier call
\* returned (which value is immaterial, so the calls are numbered)
Uuid4(n) == "uuid-" \o NatToStr(n)

\* the uuid4 calls made so far
UuidCalls == Cardinality({k \in Invs : generated[k] # <<>>})

\* the mutant of Truthy: if event["body"] is not None
TruthyNotNone(body) == body.k = "text"

\* if event["body"]:
Truthy(body) == body.k = "text" /\ body.doc.form # "empty"

\* item.get("id")
DictGet(obj, key) == IF key \in DOMAIN obj THEN obj[key] ELSE JNull

\* {"year": {"N": year}, "title": {"S": title}, "id": {"S": id}}
Item(year, title, id) == [year |-> [N |-> year], title |-> [S |-> title], id |-> [S |-> id]]

\* year = str(item["year"]); title = str(item["title"]); id = str(item["id"])
BodyItem(obj) == Item(PyStr(obj["year"]), PyStr(obj["title"]), PyStr(obj["id"]))

(* ------------------------------ log lines ----------------------------- *)
RequestReceived(i, ev) ==
  LogLine("INFO", [event |-> "request_received", request_id |-> RequestId(i),
                   source_ip |-> ev.requestContext.identity.sourceIp,
                   http_method |-> ev.requestContext.httpMethod,
                   path |-> ev.requestContext.path])

ProcessingRequest(i, obj) ==
  LogLine("INFO", [event |-> "processing_request", request_id |-> RequestId(i),
                   item_id |-> DictGet(obj, "id")])

ProcessingDefaultRequest(i) ==
  LogLine("INFO", [event |-> "processing_default_request", request_id |-> RequestId(i)])

WriteSuccess(i, id) ==
  LogLine("INFO", [event |-> "dynamodb_write_success", request_id |-> RequestId(i),
                   table |-> TableName, item_id |-> id])

ErrorLine(i, e) ==
  LogLine("ERROR", [event |-> "error", request_id |-> RequestId(i),
                    error_type |-> e.type, error_message |-> e.message])

\* the first of item["year"], item["title"], item["id"] (the order of lines
\* 75-77) that raises KeyError, <<>> when the three keys are there
MissingKey(obj) ==
  IF "year" \notin DOMAIN obj THEN <<"year">>
  ELSE IF "title" \notin DOMAIN obj THEN <<"title">>
  ELSE IF "id" \notin DOMAIN obj THEN <<"id">>
  ELSE <<>>

\* the mutant of TryBody for the order of parsing and logging: the
\* processing_request line is written before json.loads
TryBodyLogFirst(i, doc) ==
  LET early == LogLine("INFO", [event |-> "processing_request",
                                request_id |-> RequestId(i), item_id |-> JNull])
  IN IF doc.form = "malformed"
     THEN [exc |-> <<Exc("JSONDecodeError", "", "Expecting value")>>,
           lines |-> <<early>>, item |-> <<>>]
     ELSE IF doc.form # "object"
     THEN [exc |-> <<Exc("AttributeError", "", "no attribute 'get'")>>,
           lines |-> <<early>>, item |-> <<>>]
     ELSE IF MissingKey(doc.obj) # <<>>
     THEN [exc |-> <<Exc("KeyError", "", "'" \o MissingKey(doc.obj)[1] \o "'")>>,
           lines |-> <<ProcessingRequest(i, doc.obj)>>, item |-> <<>>]
     ELSE [exc |-> <<>>, lines |-> <<ProcessingRequest(i, doc.obj)>>,
           item |-> <<BodyItem(doc.obj)>>]

\* the mutant of TryBody for missing fields: item.get(key, default) instead of item[key]
TryBodyDefaults(i, doc) ==
  IF doc.form = "malformed"
  THEN [exc |-> <<Exc("JSONDecodeError", "", "Expecting value")>>,
        lines |-> <<>>, item |-> <<>>]
  ELSE IF doc.form # "object"
  THEN [exc |-> <<Exc("AttributeError", "", "no attribute 'get'")>>,
        lines |-> <<>>, item |-> <<>>]
  ELSE [exc |-> <<>>, lines |-> <<ProcessingRequest(i, doc.obj)>>,
        item |-> <<Item(PyStr(DictGet(doc.obj, "year")), PyStr(DictGet(doc.obj, "title")),
                        PyStr(DictGet(doc.obj, "id")))>>]

\* Lines 68-83 for a body text: json.loads, item.get("id") inside the
\* processing_request line, then the three subscripts.  The exception raised
\* (<<>> when none), the lines logged before it, and the item made.
TryBody(i, doc) ==
  IF doc.form = "malformed"
  THEN [exc |-> <<Exc("JSONDecodeError", "", "Expecting value")>>,
        lines |-> <<>>, item |-> <<>>]
  ELSE IF doc.form # "object"
  THEN [exc |-> <<Exc("AttributeError", "", "no attribute 'get'")>>,
        lines |-> <<>>, item |-> <<>>]
  ELSE IF MissingKey(doc.obj) # <<>>
  THEN [exc |-> <<Exc("KeyError", "", "'" \o MissingKey(doc.obj)[1] \o "'")>>,
        lines |-> <<ProcessingRequest(i, doc.obj)>>, item |-> <<>>]
  ELSE [exc |-> <<>>, lines |-> <<ProcessingRequest(i, doc.obj)>>,
        item |-> <<BodyItem(doc.obj)>>]

\* {"statusCode": 200, "headers": {...}, "body": json.dumps({"message": message})}
SuccessResponse ==
  [statusCode |-> 200,
   headers |-> [ContentType |-> "application/json"],
   body |-> "{\"message\": \"Successfully inserted data!\"}"]

(* ------------------------- put_item_with_retry ------------------------ *)
RECURSIVE Pow2(_)
Pow2(n) == IF n = 0 THEN 1 ELSE 2 * Pow2(n - 1)

\* the mutant of WaitTimeMs: the same wait before every retry
WaitTimeMsFlat(a) == BackoffBaseMs

\* the mutant of WaitTimeMs: linear instead of exponential backoff
WaitTimeMsLinear(a) == (a + 1) * BackoffBaseMs

\* wait_time = (2 ** attempt) * 0.1, in milliseconds
WaitTimeMs(a) == Pow2(a) * BackoffBaseMs

\* the mutant of MayRetry: the last attempt too is followed by a sleep
MayRetryAlways(a, m) == TRUE

\* if attempt < max_retries - 1
MayRetry(a, m) == a < m - 1

Throttled(i, a, e) ==
  LogLine("WARNING", [event |-> "dynamodb_throttled", request_id |-> RequestId(i),
                      attempt |-> a + 1, wait_time |-> WaitTimeMs(a),
                      error_code |-> e.code])

ThrottledMaxRetries(i, e) ==
  LogLine("ERROR", [event |-> "dynamodb_throttled_max_retries",
                    request_id |-> RequestId(i), error_code |-> e.code])

\* the mutant of PutItem: a put that does not replace an item already there
PutItemIfAbsent(table, it) ==
  IF \E r \in table : r.id.S = it.id.S THEN table ELSE table \cup {it}

\* dynamodb_client.put_item(TableName=table, Item=item): insert or replace by key
PutItem(table, it) == {r \in table : r.id.S # it.id.S} \cup {it}

\* the mutant of LoopTurn: the return after an accepted put is missing
LoopTurnNoReturn(i, o) ==
  IF attempt[i] >= max_retries[i]
  THEN [ends |-> "False", lines |-> <<>>, slept |-> <<>>]
  ELSE IF o = Ok \/ (IsThrottle(o) /\ MayRetry(attempt[i], max_retries[i]))
  THEN [ends |-> "continue",
        lines |-> IF o = Ok THEN <<>> ELSE <<Throttled(i, attempt[i], o)>>,
        slept |-> IF o = Ok THEN <<>> ELSE <<WaitTimeMs(attempt[i])>>]
  ELSE [ends |-> "raise",
        lines |-> IF IsThrottle(o) THEN <<ThrottledMaxRetries(i, o)>> ELSE <<>>,
        slept |-> <<>>]

\* the mutant of LoopTurn: throttling that outlasts the attempts returns False
LoopTurnFalseOnExhaust(i, o) ==
  IF attempt[i] >= max_retries[i]
  THEN [ends |-> "False", lines |-> <<>>, slept |-> <<>>]
  ELSE IF o = Ok
  THEN [ends |-> "True", lines |-> <<>>, slept |-> <<>>]
  ELSE IF IsThrottle(o) /\ MayRetry(attempt[i], max_retries[i])
  THEN [ends |-> "continue", lines |-> <<Throttled(i, attempt[i], o)>>,
        slept |-> <<WaitTimeMs(attempt[i])>>]
  ELSE IF IsThrottle(o)
  THEN [ends |-> "False", lines |-> <<ThrottledMaxRetries(i, o)>>, slept |-> <<>>]
  ELSE [ends |-> "raise", lines |-> <<>>, slept |-> <<>>]

\* One turn of the loop of put_item_with_retry (lines 25-49) when the store
\* answers o, or the end of the loop (line 50) when no turn is left: how the
\* turn ends, the lines it logs and the time it sleeps.
LoopTurn(i, o) ==
  IF attempt[i] >= max_retries[i]
  THEN [ends |-> "False", lines |-> <<>>, slept |-> <<>>]
  ELSE IF o = Ok
  THEN [ends |-> "True", lines |-> <<>>, slept |-> <<>>]
  ELSE IF IsThrottle(o) /\ MayRetry(attempt[i], max_retries[i])
  THEN [ends |-> "continue", lines |-> <<Throttled(i, attempt[i], o)>>,
        slept |-> <<WaitTimeMs(attempt[i])>>]
  ELSE [ends |-> "raise",
        lines |-> IF IsThrottle(o) THEN <<ThrottledMaxRetries(i, o)>> ELSE <<>>,
        slept |-> <<>>]

\* what a turn of put_item_with_retry changes, but for pc, log and response
TurnEffect(i, o, t) ==
  /\ outcomes' = [outcomes EXCEPT ![i] = IF t.ends = "False" THEN @ ELSE Append(@, o)]
  /\ faults' = IF t.ends = "False" \/ o = Ok THEN faults ELSE faults + 1
  /\ store' = IF t.ends = "True" THEN PutItem(store, item[i][1]) ELSE store
  /\ sleeps' = [sleeps EXCEPT ![i] = @ \o t.slept]
  /\ attempt' = [attempt EXCEPT ![i] = IF t.ends = "continue" THEN @ + 1 ELSE @]
  /\ ret' = [ret EXCEPT ![i] = IF t.ends \in {"True", "False"} THEN t.ends ELSE @]
  /\ exc' = [exc EXCEPT ![i] = IF t.ends = "raise" THEN <<o>> ELSE @]

(* ------------------------------- handler ------------------------------ *)
\* handler() for an event with a body, from its entry to the call of
\* put_item_with_retry (lines 54-83), or to its end in the except clause
\* (lines 128-135) when the body cannot be used
InvokeWithBody(i) ==
  /\ pc[i] = "idle"
  /\ \E body \in {b \in Bodies : Truthy(b)} :
       LET ev == [body |-> body, requestContext |-> RequestContext]
           t  == TryBody(i, body.doc)
       IN /\ event' = [event EXCEPT ![i] = ev]
          /\ item' = [item EXCEPT ![i] = t.item]
          /\ exc' = [exc EXCEPT ![i] = t.exc]
          /\ IF t.exc = <<>>
             THEN /\ log' = [log EXCEPT ![i] = @ \o <<RequestReceived(i, ev)>> \o t.lines]
                  /\ pc' = [pc EXCEPT ![i] = "put"]
             ELSE /\ log' = [log EXCEPT ![i] =
                               @ \o <<RequestReceived(i, ev)>> \o t.lines
                                 \o <<ErrorLine(i, t.exc[1])>>]
                  /\ pc' = [pc EXCEPT ![i] = "raised"]
  /\ max_retries' = [max_retries EXCEPT ![i] = DefaultMaxRetries]
  /\ attempt' = [attempt EXCEPT ![i] = 0]
  /\ UNCHANGED <<ret, response, sleeps, outcomes, generated, store, faults>>

\* handler() for an event whose body is None or empty, from its entry to the
\* call of put_item_with_retry (lines 54-66, 98-113)
InvokeDefault(i) ==
  /\ pc[i] = "idle"
  /\ \E body \in {b \in Bodies : ~Truthy(b)} :
       LET ev == [body |-> body, requestContext |-> RequestContext]
           default_id == Uuid4(UuidCalls + 1)
       IN /\ event' = [event EXCEPT ![i] = ev]
          /\ log' = [log EXCEPT ![i] =
                       @ \o <<RequestReceived(i, ev), ProcessingDefaultRequest(i)>>]
          /\ generated' = [generated EXCEPT ![i] = <<default_id>>]
          /\ item' = [item EXCEPT ![i] =
                        <<Item("2012", "The Amazing Spider-Man 2", default_id)>>]
  /\ max_retries' = [max_retries EXCEPT ![i] = DefaultMaxRetries]
  /\ attempt' = [attempt EXCEPT ![i] = 0]
  /\ pc' = [pc EXCEPT ![i] = "put"]
  /\ UNCHANGED <<ret, exc, response, sleeps, outcomes, store, faults>>

\* the mutant of AfterPut: the except clause raises without logging
AfterPutSilent(i, o, t) ==
  IF t.ends \in {"True", "False"} THEN <<WriteSuccess(i, item[i][1].id.S)>> ELSE <<>>

\* the mutant of AfterPut: the success line is logged in a finally clause
AfterPutFinally(i, o, t) ==
  IF t.ends \in {"True", "False"} THEN <<WriteSuccess(i, item[i][1].id.S)>>
  ELSE IF t.ends = "raise" THEN <<ErrorLine(i, o), WriteSuccess(i, item[i][1].id.S)>>
  ELSE <<>>

\* what the handler logs once put_item_with_retry is over: the success line
\* after any return (lines 85-90, 115-120), the error line after a raise
\* (lines 129-134)
AfterPut(i, o, t) ==
  IF t.ends \in {"True", "False"} THEN <<WriteSuccess(i, item[i][1].id.S)>>
  ELSE IF t.ends = "raise" THEN <<ErrorLine(i, o)>>
  ELSE <<>>

\* One turn of put_item_with_retry inside handler(), and the rest of
\* handler() when the turn ends the call: return of the response after a
\* return (lines 85-97, 115-127), logging and raise after a raise (128-135).
HandlerPut(i, o) ==
  /\ pc[i] = "put"
  /\ LET t == LoopTurn(i, o)
     IN /\ TurnEffect(i, o, t)
        /\ log' = [log EXCEPT ![i] = @ \o t.lines \o AfterPut(i, o, t)]
        /\ response' = [response EXCEPT ![i] =
                          IF t.ends \in {"True", "False"} THEN <<SuccessResponse>> ELSE @]
        /\ pc' = [pc EXCEPT ![i] =
                    CASE t.ends \in {"True", "False"} -> "returned"
                      [] t.ends = "raise" -> "raised"
                      [] OTHER -> "put"]
  /\ UNCHANGED <<event, item, max_retries, generated>>

\* One turn of put_item_with_retry called on its own.
DirectPut(i, o) ==
  /\ pc[i] = "put"
  /\ LET t == LoopTurn(i, o)
     IN /\ TurnEffect(i, o, t)
        /\ log' = [log EXCEPT ![i] = @ \o t.lines]
        /\ pc' = [pc EXCEPT ![i] =
                    CASE t.ends \in {"True", "False"} -> "put_returned"
                      [] t.ends = "raise" -> "put_raised"
                      [] OTHER -> "put"]
  /\ UNCHANGED <<event, item, max_retries, response, generated>>

(* ---------------------------- specifications -------------------------- *)
\* the store fails at most MaxFaults times in a run
StoreAnswers == IF faults < MaxFaults THEN StoreOutcomes ELSE {Ok}

Next ==
  \E i \in Invs :
    \/ InvokeWithBody(i)
    \/ InvokeDefault(i)
    \/ \E o \in StoreAnswers : HandlerPut(i, o)

Spec == Init /\ [][Next]_vars

\* put_item_with_retry called on its own by one caller, with every max_retries
RetryItem == Item("2012", "Up", "7")

InitRetry ==
  /\ pc = [i \in Invs |-> IF i = 1 THEN "put" ELSE "idle"]
  /\ event = [i \in Invs |-> NoEvent]
  /\ item = [i \in Invs |-> IF i = 1 THEN <<RetryItem>> ELSE <<>>]
  /\ max_retries \in {[i \in Invs |-> IF i = 1 THEN m ELSE DefaultMaxRetries] :
                        m \in 0 .. MaxRetriesArg}
  /\ attempt = [i \in Invs |-> 0]
  /\ ret = [i \in Invs |-> "none"]
  /\ exc = [i \in Invs |-> <<>>]
  /\ response = [i \in Invs |-> <<>>]
  /\ log = [i \in Invs |-> <<>>]
  /\ sleeps = [i \in Invs |-> <<>>]
  /\ outcomes = [i \in Invs |-> <<>>]
  /\ generated = [i \in Invs |-> <<>>]
  /\ store = {}
  /\ faults = 0

NextRetry == \E o \in StoreOutcomes : DirectPut(1, o)

SpecRetry == InitRetry /\ [][NextRetry]_vars

\* The invocation is stopped between two put_item calls (the function's
\* timeout, which the handler does not handle).
Cancel(i) ==
  /\ pc[i] = "put"
  /\ faults < MaxFaults
  /\ faults' = faults + 1
  /\ pc' = [pc EXCEPT ![i] = "cancelled"]
  /\ UNCHANGED <<event, item, max_retries, attempt, ret, exc, response, log, sleeps,
                 outcomes, generated, store>>

\* The invocation is stopped inside a put_item call that the store has
\* applied: the table has the item, the invocation never sees the answer.
CancelInPut(i) ==
  /\ pc[i] = "put"
  /\ attempt[i] < max_retries[i]
  /\ faults < MaxFaults
  /\ faults' = faults + 1
  /\ store' = PutItem(store, item[i][1])
  /\ pc' = [pc EXCEPT ![i] = "cancelled"]
  /\ UNCHANGED <<event, item, max_retries, attempt, ret, exc, response, log, sleeps,
                 outcomes, generated>>

NextCancel ==
  \/ Next
  \/ \E i \in Invs : Cancel(i)
  \/ \E i \in Invs : CancelInPut(i)

\* the handler with invocations that may be stopped at any put_item call
SpecCancel == Init /\ [][NextCancel]_vars

(* ------------------------------- claims ------------------------------- *)
\* the lines of invocation i whose event is name, in order
Lines(i, name) == SelectSeq(log[i], LAMBDA l : l.fields.event = name)

\* the places of the log of invocation i where the event is name
Places(i, name) == {k \in 1 .. Len(log[i]) : log[i][k].fields.event = name}

\* the two transient throttling answers, as the claims name them
TransientAnswers ==
  { ClientError("ProvisionedThroughputExceededException"),
    ClientError("ThrottlingException") }

\* 100 ms * 2^i for i = 0, 1, 2, ...
BackoffTable == <<100, 200, 400, 800, 1600, 3200, 6400>>

\* the first n answers of the store to invocation i were all throttling
ThrottledFirst(i, n) ==
  /\ n <= Len(outcomes[i])
  /\ \A k \in 1 .. n : outcomes[i][k] \in TransientAnswers

\* the 200 response, field by field
Is200(r) ==
  /\ r.statusCode = 200
  /\ r.headers.ContentType = "application/json"
  /\ r.body = "{\"message\": \"Successfully inserted data!\"}"

\* C1: a handler invocation whose put is throttled k times (k < 3) and then
\* accepted succeeds: it slept exactly k times, 100 ms * 2^j before retry j
\* (100 ms then 200 ms for k = 2), logged exactly k dynamodb_throttled lines
\* (attempt j, that wait) and exactly one dynamodb_write_success line, and
\* returned the 200 response.
C1_ThrottledThenSuccess ==
  \A i \in Invs :
    LET n == Len(outcomes[i])
    IN (n >= 1 /\ outcomes[i][n] = Ok /\ ThrottledFirst(i, n - 1)) =>
         /\ pc[i] = "returned"
         /\ ret[i] = "True"
         /\ sleeps[i] = SubSeq(BackoffTable, 1, n - 1)
         /\ Len(Lines(i, "dynamodb_throttled")) = n - 1
         /\ \A k \in 1 .. n - 1 :
              LET l == Lines(i, "dynamodb_throttled")[k]
              IN /\ l.level = "WARNING"
                 /\ l.fields.attempt = k
                 /\ l.fields.wait_time = BackoffTable[k]
                 /\ l.fields.error_code = outcomes[i][k].code
         /\ Len(Lines(i, "dynamodb_write_success")) = 1
         /\ Len(response[i]) = 1 /\ Is200(response[i][1])

C1_Witness ==
  \E i \in Invs :
    /\ Len(outcomes[i]) = 3 /\ ThrottledFirst(i, 2) /\ outcomes[i][3] = Ok
    /\ outcomes[i][1] # outcomes[i][2]
    /\ pc[i] = "returned"

\* C2: a handler invocation whose put is throttled on all three attempts
\* raises the error of the last attempt; it logged exactly one
\* dynamodb_throttled_max_retries line and, after it, exactly one error
\* line, no dynamodb_write_success line, and returned no response.
C2_RetriesExhausted ==
  \A i \in Invs :
    ThrottledFirst(i, 3) =>
      /\ pc[i] = "raised"
      /\ exc[i] = <<outcomes[i][3]>>
      /\ Len(outcomes[i]) = 3
      /\ Cardinality(Places(i, "dynamodb_throttled_max_retries")) = 1
      /\ Cardinality(Places(i, "error")) = 1
      /\ \A a \in Places(i, "dynamodb_throttled_max_retries") :
           \A b \in Places(i, "error") : a < b
      /\ Places(i, "dynamodb_write_success") = {}
      /\ response[i] = <<>>

C2_Witness ==
  \E i \in Invs : ThrottledFirst(i, 3) /\ pc[i] = "raised"

\* C3: a put attempt answered by an error that is not a throttling error is
\* the last attempt of the invocation: the error is raised at once, with no
\* sleep and no dynamodb_throttled or dynamodb_throttled_max_retries line for
\* it (so the sleeps and throttled lines are those of the attempts before it).
C3_NonTransientNotRetried ==
  \A i \in Invs :
    \A k \in 1 .. Len(outcomes[i]) :
      (outcomes[i][k] # Ok /\ outcomes[i][k] \notin TransientAnswers) =>
        /\ k = Len(outcomes[i])
        /\ pc[i] = "raised"
        /\ exc[i] = <<outcomes[i][k]>>
        /\ Len(sleeps[i]) = k - 1
        /\ Cardinality(Places(i, "dynamodb_throttled")) = k - 1
        /\ Places(i, "dynamodb_throttled_max_retries") = {}

C3_Witness ==
  \E i, j \in Invs :
    /\ outcomes[i] = <<ClientError("ValidationException")>>
    /\ pc[i] = "raised" /\ sleeps[i] = <<>>
    /\ Len(outcomes[j]) = 1 /\ outcomes[j][1].type = "EndpointConnectionError"
    /\ pc[j] = "raised"

\* the invocation was given an event with this body
Given(i, body) == pc[i] # "idle" /\ event[i].body = body

\* C4: a handler invocation whose body is a text that is not JSON attempts
\* no put, never logs processing_request, logs an error line and raises the
\* parse error.
C4_MalformedBody ==
  \A i \in Invs :
    Given(i, BodyMalformed) =>
      /\ pc[i] = "raised"
      /\ outcomes[i] = <<>>
      /\ item[i] = <<>>
      /\ Places(i, "processing_request") = {}
      /\ Cardinality(Places(i, "error")) = 1
      /\ Len(exc[i]) = 1 /\ exc[i][1].type = "JSONDecodeError"
      /\ response[i] = <<>>

C4_Witness ==
  \E i \in Invs : Given(i, BodyMalformed) /\ pc[i] = "raised" /\ store # {}

\* C5: a handler invocation whose body is a JSON object lacking id, year or
\* title raises: it attempts no put, writes no default record in its place
\* and returns no response.
C5_MissingField ==
  \A i \in Invs :
    \A o \in LackingObjects :
      Given(i, BodyObject(o)) =>
        /\ pc[i] = "raised"
        /\ Len(exc[i]) = 1 /\ exc[i][1].type = "KeyError"
        /\ outcomes[i] = <<>>
        /\ item[i] = <<>>
        /\ generated[i] = <<>>
        /\ response[i] = <<>>
        /\ \A r \in store : \E j \in Invs \ {i} : item[j] = <<r>>

C5_Witness ==
  \E i \in Invs : Given(i, BodyObject(NoYear)) /\ pc[i] = "raised"

\* the answers of the store to invocation i end with an accepted put
Accepted(i) == Len(outcomes[i]) >= 1 /\ outcomes[i][Len(outcomes[i])] = Ok

\* the items the two bodies with the three fields must give, written out
ExpectedItem(o) ==
  IF o = MovieA
  THEN [year |-> [N |-> "2012"], title |-> [S |-> "Up"], id |-> [S |-> "7"]]
  ELSE [year |-> [N |-> "1999"], title |-> [S |-> "None"], id |-> [S |-> "7"]]

\* C6: for a body that is a JSON object with id, year and title, the item
\* handed to the store has exactly the fields id, year, title, each the
\* str() of the value supplied (no other field of the body), and when the
\* store accepts the put the handler returns the 200 response.
C6_ValidBodyItem ==
  \A i \in Invs :
    \A o \in ValidObjects :
      Given(i, BodyObject(o)) =>
        /\ Len(item[i]) = 1
        /\ DOMAIN item[i][1] = {"id", "year", "title"}
        /\ item[i][1] = ExpectedItem(o)
        /\ Accepted(i) =>
             /\ pc[i] = "returned"
             /\ Len(response[i]) = 1 /\ Is200(response[i][1])

C6_Witness ==
  \E i \in Invs : Given(i, BodyObject(MovieB)) /\ Accepted(i) /\ pc[i] = "returned"

\* the invocation was given no body: None or the empty text
GivenNoBody(i) == Given(i, BodyNull) \/ Given(i, BodyEmpty)

\* the invocation is over
Over(i) == pc[i] \in {"returned", "raised"}

\* C7 as stated: an invocation without a body writes the default record and
\* returns the 200 response; it does not fail.
C7_Original ==
  \A i \in Invs :
    (GivenNoBody(i) /\ Over(i)) => (pc[i] = "returned" /\ Accepted(i))

\* C7 amended: an invocation without a body hands the store the default
\* record (year "2012", title "The Amazing Spider-Man 2", an identifier
\* generated in this invocation and in no other); it fails only with an
\* error of the store, and when the store accepts the put it returns the
\* 200 response.
C7_DefaultRecord ==
  \A i \in Invs :
    GivenNoBody(i) =>
      /\ Len(generated[i]) = 1
      /\ \A j \in Invs \ {i} : generated[j] # generated[i]
      /\ item[i] = <<[year |-> [N |-> "2012"],
                      title |-> [S |-> "The Amazing Spider-Man 2"],
                      id |-> [S |-> generated[i][1]]]>>
      /\ pc[i] = "raised" =>
           /\ Len(outcomes[i]) >= 1
           /\ exc[i] = <<outcomes[i][Len(outcomes[i])]>>
           /\ exc[i][1] \in StoreErrors
      /\ Accepted(i) =>
           /\ pc[i] = "returned"
           /\ Len(response[i]) = 1 /\ Is200(response[i][1])
           /\ \A j \in Invs : pc[j] = "returned" => response[j] = response[i]

C7_Witness ==
  \E i, j \in Invs :
    /\ Given(i, BodyNull) /\ Accepted(i) /\ pc[i] = "returned"
    /\ Given(j, BodyEmpty) /\ Accepted(j) /\ pc[j] = "returned"

\* the bodies that lines 68-77 cannot use
UnusableBodies ==
  {BodyMalformed, BodyScalar(JNum(42))} \cup {BodyObject(o) : o \in LackingObjects}

\* C8 as stated: an invocation that raises has logged an error line, and an
\* invocation in which any operation failed, a put attempt too, ends by
\* raising and never by returning.
C8_Original ==
  \A i \in Invs :
    /\ pc[i] = "raised" => Places(i, "error") # {}
    /\ (\E k \in 1 .. Len(outcomes[i]) : outcomes[i][k] # Ok) => pc[i] # "returned"

\* C8 amended: an invocation that raises has logged, as its last line, one
\* error line with the type and the message of the exception it raises; an
\* invocation whose body cannot be used, or whose put_item_with_retry
\* raises (a non-throttling answer, or throttling on the third attempt),
\* ends by raising without a response; a throttled attempt that is retried
\* is logged as a warning and does not end the invocation.
C8_LoggedThenRaised ==
  \A i \in Invs :
    /\ pc[i] = "raised" =>
         /\ Len(exc[i]) = 1
         /\ Cardinality(Places(i, "error")) = 1
         /\ LET l == log[i][Len(log[i])]
            IN /\ l.level = "ERROR"
               /\ l.fields.event = "error"
               /\ l.fields.error_type = exc[i][1].type
               /\ l.fields.error_message = exc[i][1].message
         /\ response[i] = <<>>
    /\ (\E b \in UnusableBodies : Given(i, b)) => pc[i] = "raised"
    /\ \A k \in 1 .. Len(outcomes[i]) :
         (outcomes[i][k] # Ok /\ (outcomes[i][k] \notin TransientAnswers \/ k = 3)) =>
           pc[i] = "raised"
    /\ pc[i] = "returned" => (exc[i] = <<>> /\ Accepted(i))

C8_Witness ==
  \E i, j \in Invs :
    /\ pc[i] = "raised" /\ outcomes[i] = <<>>
    /\ pc[j] = "raised" /\ Len(outcomes[j]) = 3

RECURSIVE Sum(_)
Sum(q) == IF q = <<>> THEN 0 ELSE q[1] + Sum(Tail(q))

\* 100 ms * (2^0 + ... + 2^(m-2)) for m = 1, 2, 3, ...
MaxTotalSleep == <<0, 100, 300, 700, 1500, 3100, 6300>>

\* C9: in a call of put_item_with_retry with max_retries = m >= 1, whatever
\* the store answers, the i-th sleep (from 0) lasts 100 ms * 2^i, the sleeps
\* add up to at most 100 ms * (2^0 + ... + 2^(m-2)), and there is one sleep
\* between two attempts and none after the last.
C9_BackoffBound ==
  LET m == max_retries[1]
      q == sleeps[1]
  IN m >= 1 =>
       /\ q = SubSeq(BackoffTable, 1, Len(q))
       /\ Sum(q) <= MaxTotalSleep[m]
       /\ Len(q) <= m - 1
       /\ Len(q) = IF pc[1] = "put" THEN Len(outcomes[1]) ELSE Len(outcomes[1]) - 1

C9_Witness ==
  /\ max_retries[1] = 4 /\ pc[1] = "put_raised"
  /\ Len(outcomes[1]) = 4 /\ ThrottledFirst(1, 4)
  /\ sleeps[1] = <<100, 200, 400>>

\* a put of the invocation was accepted by the store
Wrote(i) == ret[i] = "True"

\* the key the invocation puts its item under
Key(i) == item[i][1].id.S

\* C10 as stated: no key of the table is written by two invocations.
C10_Original ==
  \A i, j \in Invs : (i # j /\ Wrote(i) /\ Wrote(j)) => Key(i) # Key(j)

\* C10 amended: an invocation writes under the identifier of its own
\* request, the str() of the id of its body or else the uuid it generated;
\* two invocations without a body never write the same key (two whose
\* bodies give the same id do).
C10_OwnIdentifier ==
  \A i \in Invs :
    Wrote(i) =>
      /\ GivenNoBody(i) => Key(i) = generated[i][1]
      /\ ~GivenNoBody(i) =>
           /\ generated[i] = <<>>
           /\ Key(i) = ExpectedItem(event[i].body.doc.obj).id.S
      /\ \A j \in Invs \ {i} :
           (Wrote(j) /\ GivenNoBody(i) /\ GivenNoBody(j)) => Key(i) # Key(j)

C10_Witness ==
  \E i, j \in Invs :
    /\ i # j /\ Wrote(i) /\ Wrote(j)
    /\ GivenNoBody(i) /\ GivenNoBody(j) /\ Key(i) # Key(j)

\* the record has its three fields, each with a value
Populated(r) ==
  /\ DOMAIN r = {"id", "year", "title"}
  /\ r.id.S # "" /\ r.year.N # "" /\ r.title.S # ""

\* the invocations whose put the store applies in this step
Applying(i) ==
  /\ pc[i] = "put"
  /\ \/ outcomes'[i] = Append(outcomes[i], Ok)
     \/ (pc'[i] = "cancelled" /\ store' # store)

\* C11: with invocations interleaved, retried and stopped at any put_item
\* call, every record of the table has id, year and title populated and the
\* table holds one record per id; a put the store applies leaves under its
\* id exactly the record put (nothing of the record it replaces) and
\* leaves every other record as it was, and no other step changes the table.
C11_StoreRecords ==
  [][ /\ \A r \in store' : Populated(r)
      /\ \A r1, r2 \in store' : r1.id.S = r2.id.S => r1 = r2
      /\ \A i \in Invs :
           Applying(i) =>
             /\ item[i][1] \in store'
             /\ \A r \in store : r.id.S # item[i][1].id.S => r \in store'
             /\ \A r \in store' : r = item[i][1] \/ r \in store
      /\ (\A i \in Invs : ~Applying(i)) => store' = store ]_vars

C11_Witness ==
  \E i, j \in Invs :
    /\ Given(i, BodyObject(MovieA)) /\ ret[i] = "True" /\ Len(outcomes[i]) = 2
    /\ Given(j, BodyObject(MovieB)) /\ pc[j] = "cancelled"
    /\ store = {[year |-> [N |-> "1999"], title |-> [S |-> "None"], id |-> [S |-> "7"]]}

\* C12: in one handler invocation at most one put is accepted: the accepted
\* put is the last attempt, put_item_with_retry returns True at once (no
\* sleep and no dynamodb_throttled line after it), and the invocation makes
\* the attempts of one call of put_item_with_retry only, three at most.
C12_OnePutPerInvocation ==
  \A i \in Invs :
    /\ Len(outcomes[i]) <= 3
    /\ Cardinality(Places(i, "dynamodb_write_success")) <= 1
    /\ \A k \in 1 .. Len(outcomes[i]) :
         outcomes[i][k] = Ok =>
           /\ k = Len(outcomes[i])
           /\ ret[i] = "True"
           /\ pc[i] = "returned"
           /\ Len(sleeps[i]) = k - 1
           /\ Cardinality(Places(i, "dynamodb_throttled")) = k - 1

C12_Witness ==
  \E i \in Invs :
    /\ outcomes[i] = <<ClientError("ThrottlingException"), Ok>>
    /\ pc[i] = "returned" /\ item[i][1] \in store

\* C13 as stated: for every max_retries and every sequence of store answers
\* put_item_with_retry never returns False.
C13_Original == ret[1] # "False"

\* C13 amended: for every max_retries >= 1 and every sequence of store
\* answers, put_item_with_retry returns True after an accepted put or
\* raises the error of its last attempt, and never returns False.  (With
\* max_retries <= 0 the loop has no turn and line 50 returns False.)
C13_NeverFalse ==
  max_retries[1] >= 1 =>
    /\ ret[1] # "False"
    /\ pc[1] \in {"put", "put_returned", "put_raised"}
    /\ pc[1] = "put_returned" => (ret[1] = "True" /\ Accepted(1) /\ RetryItem \in store)
    /\ pc[1] = "put_raised" =>
         /\ ret[1] = "none"
         /\ Len(outcomes[1]) >= 1
         /\ exc[1] = <<outcomes[1][Len(outcomes[1])]>>
         /\ exc[1][1] \in StoreErrors
    /\ ThrottledFirst(1, max_retries[1]) => pc[1] = "put_raised"

C13_Witness ==
  /\ max_retries[1] = 3 /\ ThrottledFirst(1, 3)
  /\ pc[1] = "put_raised" /\ ret[1] = "none"

\* C14: a handler invocation makes at most three put attempts, whatever the
\* store answers; while it is in put_item_with_retry it has made fewer than
\* three and its next attempt can be made, and once it has made three it is
\* over (it returned or raised).
C14_Terminates ==
  \A i \in Invs :
    /\ pc[i] \in {"idle", "put", "returned", "raised"}
    /\ Len(outcomes[i]) <= 3
    /\ pc[i] = "put" =>
         /\ Len(outcomes[i]) = attempt[i]
         /\ attempt[i] < 3
         /\ ENABLED HandlerPut(i, Ok)
    /\ Len(outcomes[i]) = 3 => Over(i)
    /\ pc[i] = "idle" => ENABLED (InvokeWithBody(i) \/ InvokeDefault(i))

C14_Witness ==
  \E i \in Invs : ThrottledFirst(i, 3) /\ Over(i)

\* C15: in a call of put_item_with_retry with max_retries = m >= 1 a
\* dynamodb_throttled_max_retries line is logged (once) exactly when attempt
\* m was answered by throttling; a call throttled on its first attempts and
\* then answered by another error has logged one dynamodb_throttled line per
\* throttled attempt, no dynamodb_throttled_max_retries line, and raises that
\* other error.
C15_ExhaustedIff ==
  LET m == max_retries[1]
      n == Len(outcomes[1])
  IN m >= 1 =>
       /\ Cardinality(Places(1, "dynamodb_throttled_max_retries")) <= 1
       /\ Places(1, "dynamodb_throttled_max_retries") # {}
            <=> (n = m /\ outcomes[1][m] \in TransientAnswers)
       /\ (n >= 1 /\ outcomes[1][n] # Ok /\ outcomes[1][n] \notin TransientAnswers) =>
            /\ ThrottledFirst(1, n - 1)
            /\ Cardinality(Places(1, "dynamodb_throttled")) = n - 1
            /\ Places(1, "dynamodb_throttled_max_retries") = {}
            /\ pc[1] = "put_raised"
            /\ exc[1] = <<outcomes[1][n]>>

C15_Witness ==
  /\ max_retries[1] = 3
  /\ outcomes[1] = <<ClientError("ThrottlingException"),
                     ClientError("ProvisionedThroughputExceededException"),
                     ClientError("ValidationException")>>
  /\ pc[1] = "put_raised"

\* C16: an invocation that is over either returned the 200 response, with
\* exactly one dynamodb_write_success line and no error line, or raised,
\* with no dynamodb_write_success line and no response; no invocation has
\* both lines; request_received is the first line of every invocation and
\* is logged before any put attempt.
C16_OneOutcome ==
  \A i \in Invs :
    /\ pc[i] = "returned" =>
         /\ Len(response[i]) = 1 /\ Is200(response[i][1])
         /\ Cardinality(Places(i, "dynamodb_write_success")) = 1
         /\ Places(i, "error") = {}
    /\ pc[i] = "raised" =>
         /\ response[i] = <<>>
         /\ Places(i, "dynamodb_write_success") = {}
    /\ ~Over(i) => (response[i] = <<>> /\ Places(i, "dynamodb_write_success") = {})
    /\ Places(i, "dynamodb_write_success") = {} \/ Places(i, "error") = {}
    /\ pc[i] # "idle" => Places(i, "request_received") = {1}
    /\ pc[i] = "idle" => (log[i] = <<>> /\ outcomes[i] = <<>>)

C16_Witness ==
  \E i, j \in Invs :
    /\ pc[i] = "returned" /\ GivenNoBody(i)
    /\ pc[j] = "raised" /\ Len(outcomes[j]) = 2

\* C17: a dynamodb_write_success line, and the 200 response, come only
\* after a put of the invocation was accepted by the store: the call
\* returned True, and the line names the table and the id of the item put.
C17_SuccessMeansWritten ==
  \A i \in Invs :
    (Places(i, "dynamodb_write_success") # {} \/ response[i] # <<>>) =>
      /\ Accepted(i)
      /\ ret[i] = "True"
      /\ \A k \in Places(i, "dynamodb_write_success") :
           /\ log[i][k].fields.item_id = item[i][1].id.S
           /\ log[i][k].fields.table = "demo_table"
           /\ k = Len(log[i])

C17_Witness ==
  \E i \in Invs :
    /\ Places(i, "dynamodb_write_success") # {} /\ response[i] # <<>>
    /\ Len(outcomes[i]) = 3 /\ Accepted(i)

\* the request identifier the environment gave invocation i, written out
GivenRequestId(i) == "req-" \o NatToStr(i)

\* the events the handler and put_item_with_retry log
EventNames ==
  {"request_received", "processing_request", "processing_default_request",
   "dynamodb_throttled", "dynamodb_throttled_max_retries",
   "dynamodb_write_success", "error"}

\* C18: every line an invocation logs carries the request identifier of
\* that invocation, and so none carries the identifier of another
\* invocation, however the invocations interleave.
C18_RequestIdThreaded ==
  \A i \in Invs :
    \A k \in 1 .. Len(log[i]) :
      /\ log[i][k].fields.event \in EventNames
      /\ log[i][k].fields.request_id = GivenRequestId(i)
      /\ \A j \in Invs \ {i} : log[i][k].fields.request_id # GivenRequestId(j)

C18_Witness ==
  \E i, j \in Invs :
    /\ i # j
    /\ {log[i][k].fields.event : k \in 1 .. Len(log[i])}
         \cup {log[j][k].fields.event : k \in 1 .. Len(log[j])} = EventNames

====
